---------------------------- MODULE Spec2Model ----------------------------
(***************************************************************************)
(* A model of the Global UFO Sightings Tracker.                            *)
(*                                                                         *)
(*   data_processor.py  clean_data, create_sqlite_db and the batch run     *)
(*   app.py             load_data (cached), the sidebar filters and the    *)
(*                      top-10 aggregations                                *)
(*                                                                         *)
(* Text is a sequence of one-character strings.  A DataFrame cell is a     *)
(* record [t, s, n]: t = "str" (text s), "num" (number n), "ts" (a         *)
(* timestamp, n hours since the epoch), "nan" (NaN / NaT / None) or        *)
(* "absent" (the frame has no such column).  A DataFrame is a sequence of  *)
(* rows; a row keeps its index label idx through every step, as pandas     *)
(* does.                                                                   *)
(***************************************************************************)
EXTENDS Integers, Sequences, FiniteSets, TLC

VARIABLES
    \* clean_data (data_processor.py)
    raw_df,        \* the frame handed to clean_data
    cleaned_df,    \* what clean_data returned for raw_df
    recleaned_df,  \* what clean_data returned for cleaned_df
    phase,         \* "raw" | "cleaned" | "recleaned"
    \* the batch run (data_processor.py __main__) and the store
    pc,            \* position of the batch run
    run_df,        \* rows of the run's cleaned frame
    csv_file,      \* data/ufo_cleaned.csv
    table,         \* the committed `sightings` table of ufo_sightings.db
    csv_at_start,  \* csv_file when the current run started
    table_at_start,\* table when the current run started
    runs,          \* batch runs started so far
    \* load_data and its cache (app.py)
    clock,         \* seconds on the cache's timer
    ticks,         \* clock advances so far
    cache,         \* the st.cache_data entry of load_data()
    view,          \* the frame the last script run worked on
    \* the sidebar filters and the statistics (app.py)
    df,            \* the loaded frame
    spc,           \* position of the script run
    year_range,
    selected_countries,
    selected_states,
    selected_shapes,
    keyword,
    filtered_df,
    country_counts,
    shape_counts

cleanVars == <<raw_df, cleaned_df, recleaned_df, phase>>
batchVars == <<pc, run_df, csv_file, table, csv_at_start, table_at_start, runs>>
cacheVars == <<clock, ticks, cache, view>>
dashVars  == <<df, spc, year_range, selected_countries, selected_states,
               selected_shapes, keyword, filtered_df, country_counts,
               shape_counts>>
vars == <<cleanVars, batchVars, cacheVars, dashVars>>

(***************************************************************************)
(* Bounds of the model.                                                    *)
(***************************************************************************)
MaxRows == 2
MaxDescLen == 5
MaxRuns == 2
MaxStoreRows == 1
MaxTicks == 2
MaxRecs == 2
MaxStatRows == 3
MaxKeyLen == 2

(***************************************************************************)
(* Cells and characters.                                                   *)
(***************************************************************************)
Str(s) == [t |-> "str", s |-> s, n |-> 0]
Num(n) == [t |-> "num", s |-> <<>>, n |-> n]
Ts(n)  == [t |-> "ts",  s |-> <<>>, n |-> n]
NaN    == [t |-> "nan", s |-> <<>>, n |-> 0]
Absent == [t |-> "absent", s |-> <<>>, n |-> 0]

IsNA(v) == v.t = "nan"

LowerSeq == <<"a","b","c","d","e","f","g","h","i","j","k","l","m",
              "n","o","p","q","r","s","t","u","v","w","x","y","z">>
UpperSeq == <<"A","B","C","D","E","F","G","H","I","J","K","L","M",
              "N","O","P","Q","R","S","T","U","V","W","X","Y","Z">>
DigitSeq == <<"0","1","2","3","4","5","6","7","8","9">>

Range(s) == {s[i] : i \in DOMAIN s}

DigitChars == Range(DigitSeq)
UpperChars == Range(UpperSeq)
WordChars == Range(LowerSeq) \cup Range(UpperSeq) \cup Range(DigitSeq) \cup {"_"}

IsDigit(c) == c \in DigitChars
DigitVal(c) == (CHOOSE i \in DOMAIN DigitSeq : DigitSeq[i] = c) - 1

\* \w of the pattern at line 41
IsWord(c) == c \in WordChars
\* \s of the pattern at line 41, and what str.strip() strips
IsSpace(c) == c = " "

\* str.lower() on one character
LowerChar(c) ==
    IF c \in UpperChars
    THEN LowerSeq[CHOOSE i \in DOMAIN UpperSeq : UpperSeq[i] = c]
    ELSE c

StrLower(s) == [i \in DOMAIN s |-> LowerChar(s[i])]

RECURSIVE LStrip(_)
LStrip(s) == IF s # <<>> /\ IsSpace(Head(s)) THEN LStrip(Tail(s)) ELSE s

RECURSIVE RStrip(_)
RStrip(s) ==
    IF s # <<>> /\ IsSpace(s[Len(s)]) THEN RStrip(SubSeq(s, 1, Len(s) - 1)) ELSE s

\* str.strip()
Strip(s) == RStrip(LStrip(s))

StartsWith(s, pat) == Len(s) >= Len(pat) /\ SubSeq(s, 1, Len(pat)) = pat

\* str.replace(pat, rep): every non-overlapping occurrence, left to right
RECURSIVE Replace(_, _, _)
Replace(s, pat, rep) ==
    IF s = <<>> THEN <<>>
    ELSE IF StartsWith(s, pat)
         THEN rep \o Replace(SubSeq(s, Len(pat) + 1, Len(s)), pat, rep)
         ELSE <<Head(s)>> \o Replace(Tail(s), pat, rep)

(***************************************************************************)
(* Parsing.  Numeric text is an optional "-" and digits.  Timestamp text   *)
(* is "<day> <hour>": the calendar date is kept as a day number, and an    *)
(* hour of 24 or more does not parse (the raw dataset has "24:00" rows).   *)
(***************************************************************************)
RECURSIVE NatOf(_)
NatOf(s) == IF s = <<>> THEN 0 ELSE NatOf(SubSeq(s, 1, Len(s) - 1)) * 10 + DigitVal(s[Len(s)])

IsNatText(s) == s # <<>> /\ \A i \in DOMAIN s : IsDigit(s[i])

IsIntText(s) == IsNatText(s) \/ (s # <<>> /\ Head(s) = "-" /\ IsNatText(Tail(s)))

IntOf(s) == IF Head(s) = "-" THEN 0 - NatOf(Tail(s)) ELSE NatOf(s)

\* pd.to_numeric(col, errors='coerce') on one cell
ToNumeric(v) ==
    IF v.t = "num" THEN v
    ELSE IF v.t = "str" /\ IsIntText(v.s) THEN Num(IntOf(v.s))
    ELSE NaN

HoursPerDay == 24

SpaceAt(s) == {i \in DOMAIN s : s[i] = " "}

IsTsText(s) ==
    /\ Cardinality(SpaceAt(s)) = 1
    /\ LET k == CHOOSE i \in SpaceAt(s) : TRUE
       IN  /\ IsNatText(SubSeq(s, 1, k - 1))
           /\ IsNatText(SubSeq(s, k + 1, Len(s)))
           /\ NatOf(SubSeq(s, k + 1, Len(s))) < HoursPerDay

TsOf(s) ==
    LET k == CHOOSE i \in SpaceAt(s) : TRUE
    IN  NatOf(SubSeq(s, 1, k - 1)) * HoursPerDay + NatOf(SubSeq(s, k + 1, Len(s)))

\* pd.to_datetime(col, errors='coerce') on one cell
ToDatetime(v) ==
    IF v.t = "ts" THEN v
    ELSE IF v.t = "str" /\ IsTsText(v.s) THEN Ts(TsOf(v.s))
    ELSE NaN

\* .dt.normalize(): the timestamp at midnight
Normalize(v) == IF v.t = "ts" THEN Ts(v.n - (v.n % HoursPerDay)) ELSE NaN

(***************************************************************************)
(* clean_data (data_processor.py lines 5-61).  Rows carry the column names *)
(* the frame has after the renames of lines 19-20.  city stands for the    *)
(* columns clean_data passes through untouched (city, state, country).     *)
(***************************************************************************)
\* the rows of `rows` at the positions in `keep`, in order
RECURSIVE Take(_, _, _)
Take(rows, keep, n) ==
    IF n = 0 THEN <<>>
    ELSE IF n \in keep THEN Append(Take(rows, keep, n - 1), rows[n])
         ELSE Take(rows, keep, n - 1)

\* lines 24-25
SetDatetime(r) ==
    [r EXCEPT !.datetime = ToDatetime(r.datetime),
              !.date = Normalize(ToDatetime(r.datetime))]

\* line 26: dropna(subset=['datetime'])
HasDatetime(r) == ~IsNA(r.datetime)

\* lines 29-30
SetLatLon(r) ==
    [r EXCEPT !.latitude = ToNumeric(r.latitude),
              !.longitude = ToNumeric(r.longitude)]

\* line 31: dropna(subset=['latitude', 'longitude'])
HasLatLon(r) == ~IsNA(r.latitude) /\ ~IsNA(r.longitude)

MinLat == -90
MaxLat == 90
MinLon == -180
MaxLon == 180

\* line 34 without its lower bound
LatOkLoose(r) == r.latitude.n <= MaxLat
\* line 34
LatOk(r) == r.latitude.n >= MinLat /\ r.latitude.n <= MaxLat

\* line 35
LonOk(r) == r.longitude.n >= MinLon /\ r.longitude.n <= MaxLon

Unknown == <<"u","n","k","n","o","w","n">>

\* line 38: fillna('unknown').str.lower().str.strip()
CleanShape(v) == IF IsNA(v) THEN Str(Unknown) ELSE Str(Strip(StrLower(v.s)))

\* the class [\w\s.,!?] of line 41
Kept(c) == IsWord(c) \/ IsSpace(c) \/ c \in {".", ",", "!", "?"}

RECURSIVE KeepOnly(_)
KeepOnly(s) ==
    IF s = <<>> THEN <<>>
    ELSE IF Kept(Head(s)) THEN <<Head(s)>> \o KeepOnly(Tail(s))
         ELSE KeepOnly(Tail(s))

\* line 41: re.sub(r'[^\w\s.,!?]', '', str(x).strip())
Sanitize(s) == KeepOnly(Strip(s))

Amp44 == <<"&","#","4","4">>
AmpQuot == <<"&","q","u","o","t",";">>
Amp33 == <<"&","#","3","3",";">>

\* line 42: the three str.replace calls
DecodeEntities(s) ==
    Replace(Replace(Replace(s, Amp44, <<",">>), AmpQuot, <<"\"">>), Amp33, <<"!">>)

\* lines 41-42 on one cell
CleanDescription(v) ==
    Str(DecodeEntities(Sanitize(IF IsNA(v) THEN <<>> ELSE v.s)))

\* line 45 without fillna(0)
CleanDurationNoFill(v) == ToNumeric(v)
\* line 45: pd.to_numeric(errors='coerce').fillna(0)
CleanDuration(v) == IF IsNA(ToNumeric(v)) THEN Num(0) ELSE ToNumeric(v)

\* lines 38-51 on one row
SetColumns(r) ==
    [r EXCEPT !.shape = CleanShape(r.shape),
              !.description = CleanDescription(r.description),
              !.duration_s = CleanDuration(r.duration_s),
              !.date_posted = IF r.date_posted_str.t = "absent" THEN NaN
                              ELSE ToDatetime(r.date_posted_str)]

\* the subset of line 54
DedupKey(r) == <<r.datetime, r.latitude, r.longitude, r.description>>

\* line 54 with keep='last'
DropDuplicatesKeepLast(rows) ==
    Take(rows,
         {i \in DOMAIN rows : \A j \in DOMAIN rows : j > i => DedupKey(rows[j]) # DedupKey(rows[i])},
         Len(rows))
\* line 54: drop_duplicates(subset=...), keep='first'
DropDuplicates(rows) ==
    Take(rows,
         {i \in DOMAIN rows : \A j \in 1..(i - 1) : DedupKey(rows[j]) # DedupKey(rows[i])},
         Len(rows))

\* lines 57-58: date_posted_str is not among the selected columns
SelectColumns(r) == [r EXCEPT !.date_posted_str = Absent]

\* lines 24-26
CoerceDatetime(rows) ==
    Take([i \in DOMAIN rows |-> SetDatetime(rows[i])],
         {i \in DOMAIN rows : HasDatetime(SetDatetime(rows[i]))}, Len(rows))

\* lines 29-31
CoerceLatLon(rows) ==
    Take([i \in DOMAIN rows |-> SetLatLon(rows[i])],
         {i \in DOMAIN rows : HasLatLon(SetLatLon(rows[i]))}, Len(rows))

\* line 34
KeepLatitudes(rows) == Take(rows, {i \in DOMAIN rows : LatOk(rows[i])}, Len(rows))

\* line 35
KeepLongitudes(rows) == Take(rows, {i \in DOMAIN rows : LonOk(rows[i])}, Len(rows))

\* lines 38-51
CleanColumns(rows) == [i \in DOMAIN rows |-> SetColumns(rows[i])]

\* lines 57-58
CleanedColumns(rows) == [i \in DOMAIN rows |-> SelectColumns(rows[i])]

clean_data(rows) ==
    CleanedColumns(DropDuplicates(CleanColumns(
        KeepLongitudes(KeepLatitudes(CoerceLatLon(CoerceDatetime(rows)))))))

(***************************************************************************)
(* The raw frames clean_data is run on.  A raw row is the base row with    *)
(* one column changed (the duration also at a second place); idx is the    *)
(* row's position in the raw frame.                                        *)
(***************************************************************************)
DatetimePool ==
    {Str(<<"1"," ","2","0">>), Str(<<"2"," ","5">>), Str(<<"1"," ","2","4">>),
     Str(<<"x">>), NaN}
LatitudePool ==
    {Str(<<"0">>), Str(<<"0","0">>), Str(<<"9","0">>), Str(<<"9","1">>),
     Str(<<"-","9","0">>), Str(<<"-","9","1">>), Str(<<"x">>), NaN}
LongitudePool ==
    {Str(<<"0">>), Str(<<"1","8","0">>), Str(<<"1","8","1">>),
     Str(<<"-","1","8","0">>), Str(<<"-","1","8","1">>), Str(<<"x">>), NaN}
ShapePool == {Str(<<"d","i","s","k">>), Str(<<" ","D","i","s","k">>), NaN}
DurationPool == {Str(<<"5">>), Str(<<"-","5">>), Str(<<"x">>), NaN}
DescriptionPool ==
    {Str(<<"a">>), Str(<<"a","#">>), Str(<<"#"," ","a">>), Str(<<"#">>), NaN}
CityPool == {Str(<<"x">>), Str(<<"y">>)}
PostedPool == {Absent, Str(<<"3"," ","0">>)}

BaseRow ==
    [idx |-> 0, datetime |-> Str(<<"1"," ","2","0">>), date |-> Absent,
     city |-> Str(<<"x">>), shape |-> Str(<<"d","i","s","k">>),
     duration_s |-> Str(<<"5">>), description |-> Str(<<"a">>),
     latitude |-> Str(<<"0">>), longitude |-> Str(<<"0">>),
     date_posted_str |-> Absent, date_posted |-> Absent]

RawRowPool ==
    {[BaseRow EXCEPT !.datetime = v] : v \in DatetimePool}
    \cup {[BaseRow EXCEPT !.latitude = v] : v \in LatitudePool}
    \cup {[BaseRow EXCEPT !.longitude = v] : v \in LongitudePool}
    \cup {[BaseRow EXCEPT !.shape = v] : v \in ShapePool}
    \cup {[BaseRow EXCEPT !.duration_s = v] : v \in DurationPool}
    \cup {[BaseRow EXCEPT !.duration_s = v, !.longitude = Str(<<"1","8","0">>)] :
             v \in DurationPool}
    \cup {[BaseRow EXCEPT !.description = v] : v \in DescriptionPool}
    \cup {[BaseRow EXCEPT !.city = v] : v \in CityPool}
    \cup {[BaseRow EXCEPT !.date_posted_str = v] : v \in PostedPool}

\* the frame of the rows f[1], ..., f[n], idx set to the position
Frame(f) == [i \in DOMAIN f |-> [f[i] EXCEPT !.idx = i]]

DescAlphabet == {"a", " ", "#", "&", "4", ";"}

ScenarioRaw ==
    <<"S","a","w"," ","a"," ","l","i","g","h","t","&","#","4","4",";",
      " ","b","r","i","g","h","t","!">>
ScenarioClean ==
    <<"S","a","w"," ","a"," ","l","i","g","h","t",",",
      " ","b","r","i","g","h","t","!">>

\* every text of at most MaxDescLen characters of DescAlphabet, and the
\* three entities in a sentence
DescTexts ==
    UNION {[1..n -> DescAlphabet] : n \in 0..MaxDescLen}
    \cup {ScenarioRaw, <<"a">> \o AmpQuot, <<"a">> \o Amp33}

\* the script's call of clean_data (line 84)
Clean ==
    /\ phase = "raw"
    /\ cleaned_df' = clean_data(raw_df)
    /\ phase' = "cleaned"
    /\ UNCHANGED <<raw_df, recleaned_df, batchVars, cacheVars, dashVars>>

\* clean_data on a frame clean_data returned
Reclean ==
    /\ phase = "cleaned"
    /\ recleaned_df' = clean_data(cleaned_df)
    /\ phase' = "recleaned"
    /\ UNCHANGED <<raw_df, cleaned_df, batchVars, cacheVars, dashVars>>

NextClean == Clean \/ Reclean

(***************************************************************************)
(* The batch run (data_processor.py lines 73-97) and the store.  A frame   *)
(* is kept here as the set of its rows.  `table` is the committed content  *)
(* of the sightings table, which is what any other connection reads.       *)
(* df.to_sql(if_exists='replace') on a sqlite3 connection drops an         *)
(* existing table, creates the table (each committed as it is executed)    *)
(* and then inserts every row in one transaction, committed at its end     *)
(* and rolled back when the insert raises.                                 *)
(***************************************************************************)
StoreRows == 1..MaxStoreRows

NoTable == [exists |-> FALSE, rows |-> {}]
TableOf(rows) == [exists |-> TRUE, rows |-> rows]

NoFile == [state |-> "none", rows |-> {}]
FileOf(rows) == [state |-> "full", rows |-> rows]

\* the script is started (line 73)
StartRun ==
    /\ pc \in {"idle", "done", "error"}
    /\ runs < MaxRuns
    /\ runs' = runs + 1
    /\ csv_at_start' = csv_file
    /\ table_at_start' = table
    /\ pc' = "read"
    /\ UNCHANGED <<run_df, csv_file, table, cleanVars, cacheVars, dashVars>>

\* line 80
ReadCsv ==
    /\ pc = "read"
    /\ pc' = "clean"
    /\ UNCHANGED <<run_df, csv_file, table, csv_at_start, table_at_start, runs,
                   cleanVars, cacheVars, dashVars>>

\* line 80 raises FileNotFoundError (or another error): lines 94-97
ReadCsvFails ==
    /\ pc = "read"
    /\ pc' = "error"
    /\ UNCHANGED <<run_df, csv_file, table, csv_at_start, table_at_start, runs,
                   cleanVars, cacheVars, dashVars>>

\* line 84: the cleaned frame of this run
CleanRun ==
    /\ pc = "clean"
    /\ \E rows \in SUBSET StoreRows : run_df' = rows
    /\ pc' = "export"
    /\ UNCHANGED <<csv_file, table, csv_at_start, table_at_start, runs,
                   cleanVars, cacheVars, dashVars>>

\* line 84 raises (KeyError at line 24, 29 or 30: the raw file has no
\* datetime, latitude or longitude column): lines 96-97
CleanRunFails ==
    /\ pc = "clean"
    /\ pc' = "error"
    /\ UNCHANGED <<run_df, csv_file, table, csv_at_start, table_at_start, runs,
                   cleanVars, cacheVars, dashVars>>

\* line 87
ToCsv ==
    /\ pc = "export"
    /\ csv_file' = FileOf(run_df)
    /\ pc' = "connect"
    /\ UNCHANGED <<run_df, table, csv_at_start, table_at_start, runs,
                   cleanVars, cacheVars, dashVars>>

\* line 87 raises: the file could not be opened, or was opened (and so
\* truncated) and not written to its end
ToCsvFails ==
    /\ pc = "export"
    /\ \/ csv_file' = csv_file
       \/ csv_file' = [state |-> "partial", rows |-> {}]
    /\ pc' = "error"
    /\ UNCHANGED <<run_df, table, csv_at_start, table_at_start, runs,
                   cleanVars, cacheVars, dashVars>>

\* line 68
Connect ==
    /\ pc = "connect"
    /\ pc' = IF table.exists THEN "drop" ELSE "create"
    /\ UNCHANGED <<run_df, csv_file, table, csv_at_start, table_at_start, runs,
                   cleanVars, cacheVars, dashVars>>

\* line 69, if_exists='replace': DROP TABLE sightings
DropTable ==
    /\ pc = "drop"
    /\ table' = NoTable
    /\ pc' = "create"
    /\ UNCHANGED <<run_df, csv_file, csv_at_start, table_at_start, runs,
                   cleanVars, cacheVars, dashVars>>

\* line 69: CREATE TABLE sightings
CreateTable ==
    /\ pc = "create"
    /\ table' = TableOf({})
    /\ pc' = "insert"
    /\ UNCHANGED <<run_df, csv_file, csv_at_start, table_at_start, runs,
                   cleanVars, cacheVars, dashVars>>

\* line 69: INSERT of every row, then the commit
InsertRows ==
    /\ pc = "insert"
    /\ table' = TableOf(run_df)
    /\ pc' = "close"
    /\ UNCHANGED <<run_df, csv_file, csv_at_start, table_at_start, runs,
                   cleanVars, cacheVars, dashVars>>

\* line 68 or a statement of line 69 raises (disk full, no permission, a
\* locked database): what was committed stays, the open transaction is
\* rolled back; lines 96-97
StoreFails ==
    /\ pc \in {"connect", "drop", "create", "insert"}
    /\ pc' = "error"
    /\ UNCHANGED <<run_df, csv_file, table, csv_at_start, table_at_start, runs,
                   cleanVars, cacheVars, dashVars>>

\* lines 70-71 and 92
Close ==
    /\ pc = "close"
    /\ pc' = "done"
    /\ UNCHANGED <<run_df, csv_file, table, csv_at_start, table_at_start, runs,
                   cleanVars, cacheVars, dashVars>>

NextBatch ==
    \/ StartRun \/ ReadCsv \/ ReadCsvFails \/ CleanRun \/ CleanRunFails
    \/ ToCsv \/ ToCsvFails \/ Connect \/ DropTable \/ CreateTable
    \/ InsertRows \/ StoreFails \/ Close

(***************************************************************************)
(* load_data and its cache (app.py lines 15-25 and 49).  Streamlit runs    *)
(* the script from the top on every interaction; load_data() is memoized   *)
(* by st.cache_data(ttl=3600), whose entry is dropped once it is ttl       *)
(* seconds old.                                                            *)
(***************************************************************************)
TTL == 3600

NoCache == [present |-> FALSE, rows |-> {}, at |-> 0]
NoView == [state |-> "none", lookup |-> "none", rows |-> {}, loaded_at |-> 0, at |-> 0]

\* line 15 without a ttl
ExpiredNever(entry, now) == FALSE
\* ttl=3600 of line 15
Expired(entry, now) == now - entry.at >= TTL

\* seconds pass
Tick ==
    /\ ticks < MaxTicks
    /\ ticks' = ticks + 1
    /\ \E d \in {1, TTL - 1} : clock' = clock + d
    /\ UNCHANGED <<cache, view, cleanVars, batchVars, dashVars>>

\* line 49, the entry of the cache is there and young enough
LoadDataHit ==
    /\ cache.present /\ ~Expired(cache, clock)
    /\ view' = [state |-> "ok", lookup |-> "hit", rows |-> cache.rows,
                loaded_at |-> cache.at, at |-> clock]
    /\ UNCHANGED <<cache, clock, ticks, cleanVars, batchVars, dashVars>>

\* line 49, no usable entry: lines 18-25 run and their result is cached
LoadDataMiss ==
    /\ ~cache.present \/ Expired(cache, clock)
    /\ table.exists
    /\ cache' = [present |-> TRUE, rows |-> table.rows, at |-> clock]
    /\ view' = [state |-> "ok",
                lookup |-> IF cache.present THEN "expired" ELSE "miss",
                rows |-> table.rows, loaded_at |-> clock, at |-> clock]
    /\ UNCHANGED <<clock, ticks, cleanVars, batchVars, dashVars>>

\* line 49, no usable entry and line 19 raises (no such table: sightings)
LoadDataFails ==
    /\ ~cache.present \/ Expired(cache, clock)
    /\ ~table.exists
    /\ cache' = NoCache
    /\ view' = [state |-> "error",
                lookup |-> IF cache.present THEN "expired" ELSE "miss",
                rows |-> {}, loaded_at |-> 0, at |-> clock]
    /\ UNCHANGED <<clock, ticks, cleanVars, batchVars, dashVars>>

NextCache == Tick \/ LoadDataHit \/ LoadDataMiss \/ LoadDataFails

(***************************************************************************)
(* The script below line 49 (app.py lines 51-160): the year slider, the    *)
(* four sidebar filters and the statistics.  A row of the loaded frame is  *)
(* [year, country, state, shape, description]; year is the column line 24  *)
(* adds.  A multiselect returns a subset of the options it was given.      *)
(***************************************************************************)
SetMin(S) == CHOOSE x \in S : \A y \in S : x <= y
SetMax(S) == CHOOSE x \in S : \A y \in S : x >= y

\* lines 52-53
MinYear(rows) == SetMin({rows[i].year : i \in DOMAIN rows})
MaxYear(rows) == SetMax({rows[i].year : i \in DOMAIN rows})

\* line 68
InYearRange(r, yr) == r.year >= yr[1] /\ r.year <= yr[2]

\* Series.isin(selected)
IsIn(v, selected) == ~IsNA(v) /\ v.s \in selected

\* lines 71, 78, 84: the options of a multiselect, dropna().unique()
CountryOptions(rows) == {rows[i].country.s : i \in {j \in DOMAIN rows : ~IsNA(rows[j].country)}}
StateOptions(rows) == {rows[i].state.s : i \in {j \in DOMAIN rows : ~IsNA(rows[j].state)}}
ShapeOptions(rows) == {rows[i].shape.s : i \in {j \in DOMAIN rows : ~IsNA(rows[j].shape)}}

\* the condition of line 77
StateGate(rows, countries) ==
    \/ <<"u","s">> \in {StrLower(c) : c \in CountryOptions(rows)}
    \/ <<"c","a">> \in {StrLower(c) : c \in CountryOptions(rows)}
    \/ countries # {}

(***************************************************************************)
(* Series.str.contains(keyword, case=False, na=False) has regex=True: the  *)
(* keyword is compiled as a regular expression with re.IGNORECASE and      *)
(* searched for.  Keywords here are made of letters and ".", which is the  *)
(* pattern of any one character.                                           *)
(***************************************************************************)
MatchChar(p, c) == p = "." \/ LowerChar(p) = LowerChar(c)

MatchAt(pat, s, i) ==
    /\ i + Len(pat) - 1 <= Len(s)
    /\ \A j \in DOMAIN pat : MatchChar(pat[j], s[i + j - 1])

ReSearch(pat, s) == \E i \in 1..(Len(s) + 1) : MatchAt(pat, s, i)

\* line 92
StrContains(v, pat) == ~IsNA(v) /\ ReSearch(pat, v.s)

KeyAlphabet == {"a", "B", "."}
Keywords == UNION {[1..n -> KeyAlphabet] : n \in 0..MaxKeyLen}

\* line 52 raises on an empty frame (int(NaN)); otherwise lines 62-68
YearStep ==
    /\ spc = "year"
    /\ \/ /\ df = <<>>
          /\ spc' = "error"
          /\ UNCHANGED <<year_range, filtered_df>>
       \/ /\ df # <<>>
          /\ \E lo \in MinYear(df)..MaxYear(df) : \E hi \in lo..MaxYear(df) :
                /\ year_range' = <<lo, hi>>
                /\ filtered_df' = Take(df, {i \in DOMAIN df : InYearRange(df[i], <<lo, hi>>)}, Len(df))
          /\ spc' = "country"
    /\ UNCHANGED <<df, selected_countries, selected_states, selected_shapes,
                   keyword, country_counts, shape_counts,
                   cleanVars, batchVars, cacheVars>>

\* lines 71-74
CountryStep ==
    /\ spc = "country"
    /\ \E sel \in SUBSET CountryOptions(filtered_df) :
          /\ selected_countries' = sel
          /\ filtered_df' =
                IF sel # {}
                THEN Take(filtered_df,
                          {i \in DOMAIN filtered_df : IsIn(filtered_df[i].country, sel)},
                          Len(filtered_df))
                ELSE filtered_df
    /\ spc' = "state"
    /\ UNCHANGED <<df, year_range, selected_states, selected_shapes, keyword,
                   country_counts, shape_counts, cleanVars, batchVars, cacheVars>>

\* lines 77-81, the condition of line 77 true
StateStep ==
    /\ spc = "state"
    /\ StateGate(filtered_df, selected_countries)
    /\ \E sel \in SUBSET StateOptions(filtered_df) :
          /\ selected_states' = sel
          /\ filtered_df' =
                IF sel # {}
                THEN Take(filtered_df,
                          {i \in DOMAIN filtered_df : IsIn(filtered_df[i].state, sel)},
                          Len(filtered_df))
                ELSE filtered_df
    /\ spc' = "shape"
    /\ UNCHANGED <<df, year_range, selected_countries, selected_shapes, keyword,
                   country_counts, shape_counts, cleanVars, batchVars, cacheVars>>

\* line 77 false: the state multiselect is not drawn, nothing is selected
StateStepSkipped ==
    /\ spc = "state"
    /\ ~StateGate(filtered_df, selected_countries)
    /\ spc' = "shape"
    /\ UNCHANGED <<df, year_range, selected_countries, selected_states,
                   selected_shapes, keyword, filtered_df, country_counts,
                   shape_counts, cleanVars, batchVars, cacheVars>>

\* lines 84-87
ShapeStep ==
    /\ spc = "shape"
    /\ \E sel \in SUBSET ShapeOptions(filtered_df) :
          /\ selected_shapes' = sel
          /\ filtered_df' =
                IF sel # {}
                THEN Take(filtered_df,
                          {i \in DOMAIN filtered_df : IsIn(filtered_df[i].shape, sel)},
                          Len(filtered_df))
                ELSE filtered_df
    /\ spc' = "keyword"
    /\ UNCHANGED <<df, year_range, selected_countries, selected_states, keyword,
                   country_counts, shape_counts, cleanVars, batchVars, cacheVars>>

\* lines 90-92
KeywordStep ==
    /\ spc = "keyword"
    /\ \E kw \in Keywords :
          /\ keyword' = kw
          /\ filtered_df' =
                IF kw # <<>>
                THEN Take(filtered_df,
                          {i \in DOMAIN filtered_df : StrContains(filtered_df[i].description, kw)},
                          Len(filtered_df))
                ELSE filtered_df
    /\ spc' = "stats"
    /\ UNCHANGED <<df, year_range, selected_countries, selected_states,
                   selected_shapes, country_counts, shape_counts,
                   cleanVars, batchVars, cacheVars>>

(***************************************************************************)
(* Series.value_counts(): the distinct values that are not NaN with their  *)
(* counts, sorted by count, largest first.  The sort is sort_values with   *)
(* its default kind, quicksort, which is not stable: values of equal count *)
(* come in an order the build decides, so value_counts has every order     *)
(* that is non-increasing in the count as a possible result.               *)
(***************************************************************************)
CountryColumn(rows) == [i \in DOMAIN rows |-> rows[i].country]
ShapeColumn(rows) == [i \in DOMAIN rows |-> rows[i].shape]

CountIn(col, val) == Cardinality({i \in DOMAIN col : col[i] = Str(val)})

ColumnValues(col) == {col[i].s : i \in {j \in DOMAIN col : ~IsNA(col[j])}}

Orderings(S) ==
    {f \in [1..Cardinality(S) -> S] : \A i, j \in DOMAIN f : i # j => f[i] # f[j]}

\* value_counts(sort=False)
ValueCountsUnsorted(col) ==
    {[i \in DOMAIN f |-> [value |-> f[i], count |-> CountIn(col, f[i])]] :
        f \in Orderings(ColumnValues(col))}
ValueCounts(col) ==
    {[i \in DOMAIN f |-> [value |-> f[i], count |-> CountIn(col, f[i])]] :
        f \in {g \in Orderings(ColumnValues(col)) :
                 \A i, j \in DOMAIN g : i < j => CountIn(col, g[i]) >= CountIn(col, g[j])}}

TopK == 10

\* .head(n)
HeadN(s, n) == SubSeq(s, 1, IF n < Len(s) THEN n ELSE Len(s))

\* lines 113 and 147
Stats ==
    /\ spc = "stats"
    /\ \E cc \in ValueCounts(CountryColumn(filtered_df)) :
          country_counts' = HeadN(cc, TopK)
    /\ \E sc \in ValueCounts(ShapeColumn(filtered_df)) :
          shape_counts' = HeadN(sc, TopK)
    /\ spc' = "done"
    /\ UNCHANGED <<df, year_range, selected_countries, selected_states,
                   selected_shapes, keyword, filtered_df,
                   cleanVars, batchVars, cacheVars>>

\* the next interaction: Streamlit runs the script again from the top
Rerun ==
    /\ spc = "done"
    /\ spc' = "year"
    /\ year_range' = <<0, 0>>
    /\ selected_countries' = {}
    /\ selected_states' = {}
    /\ selected_shapes' = {}
    /\ keyword' = <<>>
    /\ filtered_df' = <<>>
    /\ country_counts' = <<>>
    /\ shape_counts' = <<>>
    /\ UNCHANGED <<df, cleanVars, batchVars, cacheVars>>

NextDash ==
    \/ YearStep \/ CountryStep \/ StateStep \/ StateStepSkipped
    \/ ShapeStep \/ KeywordStep \/ Stats \/ Rerun

LoadedRow(y, c, st, sh, d) ==
    [year |-> y, country |-> c, state |-> st, shape |-> sh, description |-> d]

LoadedRowPool ==
    {LoadedRow(1990, Str(<<"u","s">>), Str(<<"t","x">>), Str(<<"c","i","r","c","l","e">>), Str(<<"a","b">>)),
     LoadedRow(1991, Str(<<"u","s">>), NaN, Str(<<"d","i","s","k">>), Str(<<"a",".">>)),
     LoadedRow(1990, Str(<<"g","b">>), Str(<<"t","x">>), Str(<<"c","i","r","c","l","e">>), Str(<<"b">>)),
     LoadedRow(1991, Str(<<"g","b">>), NaN, Str(<<"d","i","s","k">>), Str(<<>>)),
     LoadedRow(1990, Str(<<"c","a">>), Str(<<"o","n">>), Str(<<"d","i","s","k">>), Str(<<"A","b">>)),
     LoadedRow(1991, NaN, NaN, Str(<<"u","n","k","n","o","w","n">>), Str(<<"b","a">>))}

(***************************************************************************)
(* Specifications.                                                         *)
(*   Spec       the batch run, the store and the cached load_data          *)
(*   SpecClean  clean_data on raw frames, and on its own output            *)
(*   SpecDesc   clean_data on one row, over every short description        *)
(*   SpecDash   a script run of the dashboard over loaded frames           *)
(*   SpecStats  the statistics over filtered frames                        *)
(***************************************************************************)
CleanIdle ==
    /\ raw_df = <<>> /\ cleaned_df = <<>> /\ recleaned_df = <<>>
    /\ phase = "idle"

BatchIdle ==
    /\ pc = "idle" /\ run_df = {} /\ runs = 0
    /\ csv_file = NoFile /\ table = NoTable
    /\ csv_at_start = NoFile /\ table_at_start = NoTable

CacheIdle == clock = 0 /\ ticks = 0 /\ cache = NoCache /\ view = NoView

DashIdle ==
    /\ df = <<>> /\ spc = "idle" /\ year_range = <<0, 0>>
    /\ selected_countries = {} /\ selected_states = {} /\ selected_shapes = {}
    /\ keyword = <<>> /\ filtered_df = <<>>
    /\ country_counts = <<>> /\ shape_counts = <<>>

Init == BatchIdle /\ CacheIdle /\ CleanIdle /\ DashIdle
Next == NextBatch \/ NextCache
Spec == Init /\ [][Next]_vars

InitClean ==
    /\ \E n \in 0..MaxRows : \E f \in [1..n -> RawRowPool] : raw_df = Frame(f)
    /\ cleaned_df = <<>> /\ recleaned_df = <<>>
    /\ phase = "raw"
    /\ BatchIdle /\ CacheIdle /\ DashIdle
SpecClean == InitClean /\ [][NextClean]_vars

InitDesc ==
    /\ \E d \in DescTexts : raw_df = Frame(<<[BaseRow EXCEPT !.description = Str(d)]>>)
    /\ cleaned_df = <<>> /\ recleaned_df = <<>>
    /\ phase = "raw"
    /\ BatchIdle /\ CacheIdle /\ DashIdle
SpecDesc == InitDesc /\ [][NextClean]_vars

InitDash ==
    /\ \E n \in 0..MaxRecs : df \in [1..n -> LoadedRowPool]
    /\ spc = "year" /\ year_range = <<0, 0>>
    /\ selected_countries = {} /\ selected_states = {} /\ selected_shapes = {}
    /\ keyword = <<>> /\ filtered_df = <<>>
    /\ country_counts = <<>> /\ shape_counts = <<>>
    /\ BatchIdle /\ CacheIdle /\ CleanIdle
SpecDash == InitDash /\ [][NextDash]_vars

InitStats ==
    /\ \E n \in 0..MaxStatRows : filtered_df \in [1..n -> LoadedRowPool]
    /\ df = filtered_df
    /\ spc = "stats" /\ year_range = <<0, 0>>
    /\ selected_countries = {} /\ selected_states = {} /\ selected_shapes = {}
    /\ keyword = <<>>
    /\ country_counts = <<>> /\ shape_counts = <<>>
    /\ BatchIdle /\ CacheIdle /\ CleanIdle
SpecStats == InitStats /\ [][Stats]_vars

(***************************************************************************)
(* The claims.                                                             *)
(***************************************************************************)
Cleaned == phase \in {"cleaned", "recleaned"}

\* the raw row a cleaned row came from
RawOf(r) == raw_df[r.idx]

\* a raw row whose timestamp, latitude or longitude is unparseable,
\* missing or out of range
BadRaw(r) ==
    \/ IsNA(ToDatetime(r.datetime))
    \/ IsNA(ToNumeric(r.latitude))
    \/ IsNA(ToNumeric(r.longitude))
    \/ ToNumeric(r.latitude).n < -90 \/ ToNumeric(r.latitude).n > 90
    \/ ToNumeric(r.longitude).n < -180 \/ ToNumeric(r.longitude).n > 180

\* C1: every record clean_data emits has a parsed timestamp, a numeric
\* latitude in [-90, 90] and a numeric longitude in [-180, 180], and no raw
\* row with an unparseable, missing or out-of-range timestamp, latitude or
\* longitude is in the output.
C1_ValidRecords ==
    Cleaned =>
        /\ \A i \in DOMAIN cleaned_df :
              LET r == cleaned_df[i]
              IN  /\ r.datetime.t = "ts"
                  /\ r.latitude.t = "num" /\ r.latitude.n >= -90 /\ r.latitude.n <= 90
                  /\ r.longitude.t = "num" /\ r.longitude.n >= -180 /\ r.longitude.n <= 180
        /\ \A j \in DOMAIN raw_df :
              BadRaw(raw_df[j]) => \A i \in DOMAIN cleaned_df : cleaned_df[i].idx # j

C1_Witness ==
    /\ phase = "cleaned"
    /\ Len(cleaned_df) = 1 /\ Len(raw_df) = 2
    /\ \E j \in DOMAIN raw_df :
          /\ ~IsNA(ToNumeric(raw_df[j].latitude))
          /\ ToNumeric(raw_df[j].latitude).n < -90

\* the dedup key a raw row normalizes to
NormKey(r) ==
    <<ToDatetime(r.datetime), ToNumeric(r.latitude), ToNumeric(r.longitude),
      CleanDescription(r.description)>>

\* C2: no two output records share (timestamp, latitude, longitude,
\* sanitized description); of the raw rows that normalize to one tuple
\* exactly one survives, the first in input order; the survivors keep
\* their input order.
C2_Dedup ==
    Cleaned =>
        /\ \A i, j \in DOMAIN cleaned_df :
              i # j =>
                 <<cleaned_df[i].datetime, cleaned_df[i].latitude,
                   cleaned_df[i].longitude, cleaned_df[i].description>>
                 # <<cleaned_df[j].datetime, cleaned_df[j].latitude,
                     cleaned_df[j].longitude, cleaned_df[j].description>>
        /\ \A i, j \in DOMAIN cleaned_df : i < j => cleaned_df[i].idx < cleaned_df[j].idx
        /\ \A j \in DOMAIN raw_df :
              ~BadRaw(raw_df[j]) =>
                 LET same == {k \in DOMAIN raw_df :
                                ~BadRaw(raw_df[k]) /\ NormKey(raw_df[k]) = NormKey(raw_df[j])}
                 IN  {cleaned_df[i].idx : i \in DOMAIN cleaned_df} \cap same = {SetMin(same)}

C2_Witness ==
    /\ phase = "cleaned"
    /\ Len(raw_df) = 2 /\ Len(cleaned_df) = 1
    /\ ~BadRaw(raw_df[1]) /\ ~BadRaw(raw_df[2])
    /\ raw_df[1].description # raw_df[2].description
    /\ cleaned_df[1].idx = 1

\* C7: clean_data on its own output gives the same records, none dropped
\* and no shape, description, duration, coordinate or timestamp changed.
C7_Idempotent ==
    phase = "recleaned" =>
        /\ Len(recleaned_df) = Len(cleaned_df)
        /\ \A i \in DOMAIN recleaned_df :
              /\ i \in DOMAIN cleaned_df
              /\ recleaned_df[i].idx = cleaned_df[i].idx
              /\ recleaned_df[i].shape = cleaned_df[i].shape
              /\ recleaned_df[i].description = cleaned_df[i].description
              /\ recleaned_df[i].duration_s = cleaned_df[i].duration_s
              /\ recleaned_df[i].latitude = cleaned_df[i].latitude
              /\ recleaned_df[i].longitude = cleaned_df[i].longitude
              /\ recleaned_df[i].datetime = cleaned_df[i].datetime

\* the description the spec describes: trimmed, each entity replaced by its
\* character, every other character outside [\w\s.,!?] removed
RECURSIVE DecodedText(_)
DecodedText(s) ==
    IF s = <<>> THEN <<>>
    ELSE IF StartsWith(s, Amp44 \o <<";">>)
         THEN <<",">> \o DecodedText(SubSeq(s, 6, Len(s)))
    ELSE IF StartsWith(s, AmpQuot)
         THEN <<"\"">> \o DecodedText(SubSeq(s, 7, Len(s)))
    ELSE IF StartsWith(s, Amp33)
         THEN <<"!">> \o DecodedText(SubSeq(s, 6, Len(s)))
    ELSE IF Kept(Head(s)) THEN <<Head(s)>> \o DecodedText(Tail(s))
    ELSE DecodedText(Tail(s))

\* C8: the normalized description has the entities decoded, &#44; to a
\* comma, &quot; to a double quote and &#33; to an exclamation mark, with
\* nothing of the entity left; "Saw a light&#44; bright!" becomes
\* "Saw a light, bright!".
C8_EntitiesDecoded ==
    Cleaned =>
        \A i \in DOMAIN cleaned_df :
            /\ RawOf(cleaned_df[i]).description.t = "str" =>
                 cleaned_df[i].description
                    = Str(DecodedText(Strip(RawOf(cleaned_df[i]).description.s)))
            /\ RawOf(cleaned_df[i]).description = Str(ScenarioRaw) =>
                 cleaned_df[i].description = Str(ScenarioClean)

WithDuration(rows, v) == [i \in DOMAIN rows |-> [rows[i] EXCEPT !.duration_s = v]]
IdxOf(rows) == [i \in DOMAIN rows |-> rows[i].idx]

\* the rows clean_data keeps do not depend on the duration column
DurationDropsNothing ==
    IdxOf(cleaned_df) = IdxOf(clean_data(WithDuration(raw_df, Str(<<"5">>))))

\* C9 as amended: every emitted record has a numeric duration, 0 for an
\* unparseable or missing raw duration and the parsed number otherwise, a
\* negative one included (it is not clamped); the duration never causes a
\* row to be dropped.
C9_Duration ==
    Cleaned =>
        /\ \A i \in DOMAIN cleaned_df :
              LET d == ToNumeric(RawOf(cleaned_df[i]).duration_s)
              IN  /\ cleaned_df[i].duration_s.t = "num"
                  /\ cleaned_df[i].duration_s = IF IsNA(d) THEN Num(0) ELSE d
        /\ DurationDropsNothing

C9_Witness ==
    /\ phase = "cleaned"
    /\ \E i, j \in DOMAIN cleaned_df :
          /\ IsNA(ToNumeric(RawOf(cleaned_df[i]).duration_s))
          /\ cleaned_df[i].duration_s = Num(0)
          /\ cleaned_df[j].duration_s.n < 0

\* C9 as claimed: every emitted record has a numeric duration >= 0, 0 for
\* an unparseable or missing raw duration, a negative one clamped to 0; the
\* duration never causes a row to be dropped.
C9_Original ==
    Cleaned =>
        /\ \A i \in DOMAIN cleaned_df :
              LET d == ToNumeric(RawOf(cleaned_df[i]).duration_s)
              IN  /\ cleaned_df[i].duration_s.t = "num"
                  /\ cleaned_df[i].duration_s.n >= 0
                  /\ IsNA(d) \/ d.n < 0 => cleaned_df[i].duration_s = Num(0)
        /\ DurationDropsNothing

\* C3: replacing the stored dataset is atomic: at every moment of a run
\* that found a dataset in the store, a failing run included, the table
\* holds the complete previous record set or the complete new one, and is
\* never missing, empty or partly written.
C3_AtomicReplace ==
    (pc # "idle" /\ table_at_start.exists) =>
        \/ table = table_at_start
        \/ pc \in {"close", "done"} /\ table = TableOf(run_df)

\* C4: a batch run that ends in an error has written neither the cleaned
\* export nor the store.
C4_NoPartialOutput ==
    pc = "error" => csv_file = csv_at_start /\ table = table_at_start

\* a step of the script's line 49
ScriptRuns == view' # view

\* C5 as claimed: the cached dataset changes only after a re-run of the
\* pipeline, never by elapsed time, and the first query after a re-run
\* works on the new dataset.
C5_Original ==
    [][/\ ScriptRuns /\ cache.present /\ table = TableOf(cache.rows) => cache' = cache
       /\ ScriptRuns /\ pc = "done" => view'.rows = table.rows
       /\ ~ScriptRuns => cache' = cache]_vars

\* C5 as amended: load_data is memoized for 3600 seconds.  A script run
\* less than 3600 s after the load works on the cached dataset, whatever
\* the pipeline wrote to the store since; the first script run 3600 s or
\* more after the load reads the store again; nothing but a script run
\* changes the cache, a re-run of the pipeline does not.
C5_CachedForTtl ==
    [][/\ ScriptRuns /\ cache.present /\ clock - cache.at < 3600 =>
             /\ cache' = cache
             /\ view'.state = "ok" /\ view'.rows = cache.rows
       /\ ScriptRuns /\ ~(cache.present /\ clock - cache.at < 3600) =>
             IF table.exists
             THEN /\ cache' = [present |-> TRUE, rows |-> table.rows, at |-> clock]
                  /\ view'.state = "ok" /\ view'.rows = table.rows
             ELSE ~cache'.present /\ view'.state = "error"
       /\ ~ScriptRuns => cache' = cache]_vars

\* the script ran on a cached dataset the store no longer holds, and a
\* later one read the store again because the entry had expired
C5_Witness ==
    /\ view.state = "ok" /\ view.lookup = "expired"
    /\ view.rows = table.rows
    /\ runs = 2 /\ pc = "done"
    /\ table_at_start.exists /\ table_at_start.rows # table.rows

Contains(s, sub) ==
    \E i \in 1..(Len(s) + 1) :
        /\ i + Len(sub) - 1 <= Len(s)
        /\ SubSeq(s, i, i + Len(sub) - 1) = sub

\* the conjunction of the criteria of the script run
Satisfies(r) ==
    /\ r.year >= year_range[1] /\ r.year <= year_range[2]
    /\ selected_countries = {} \/ (r.country.t = "str" /\ r.country.s \in selected_countries)
    /\ selected_states = {} \/ (r.state.t = "str" /\ r.state.s \in selected_states)
    /\ selected_shapes = {} \/ (r.shape.t = "str" /\ r.shape.s \in selected_shapes)
    /\ keyword = <<>>
         \/ (r.description.t = "str"
             /\ Contains(StrLower(r.description.s), StrLower(keyword)))

\* C6: the filtered view is exactly the records that satisfy every
\* supplied criterion (year in the range, country, state and shape in the
\* selected sets, description containing the keyword whatever the case),
\* an empty criterion restricting nothing.
C6_FilterIsConjunction ==
    spc \in {"stats", "done"} =>
        filtered_df = Take(df, {i \in DOMAIN df : Satisfies(df[i])}, Len(df))

FirstAt(col, val) == SetMin({i \in DOMAIN col : col[i] = Str(val)})

\* the first k entries of `out` are a top-k of column `col`
TopOf(out, col, k) ==
    LET h == HeadN(out, k)
    IN  /\ Len(h) <= k
        /\ \A i, j \in DOMAIN h : i < j => h[i].count >= h[j].count
        /\ \A i, j \in DOMAIN h : i # j => h[i].value # h[j].value
        /\ \A i \in DOMAIN h :
              /\ h[i].count >= 1
              /\ h[i].count = Cardinality({j \in DOMAIN col : col[j] = Str(h[i].value)})
        /\ \A j \in DOMAIN col :
              (col[j].t = "str" /\ \A i \in DOMAIN h : h[i].value # col[j].s) =>
                  /\ Len(h) = k
                  /\ \A i \in DOMAIN h :
                        h[i].count >= Cardinality({m \in DOMAIN col : col[m] = col[j]})

\* entries of equal count come in the order of their first occurrence
TiesByFirstOccurrence(out, col) ==
    \A i, j \in DOMAIN out :
        (i < j /\ out[i].count = out[j].count) =>
            FirstAt(col, out[i].value) < FirstAt(col, out[j].value)

\* C10 as amended: for every k the top-k by country, and by shape, has at
\* most k (value, count) entries in non-increasing order of count, each
\* count the number of filtered records with that value, records without a
\* country left out, no omitted value with a larger count than an included
\* one, and nothing for an empty input; values of equal count come in an
\* order that is not determined.
C10_TopK ==
    spc = "done" =>
        \A k \in 0..TopK :
            /\ TopOf(country_counts, CountryColumn(filtered_df), k)
            /\ TopOf(shape_counts, ShapeColumn(filtered_df), k)

C10_Witness ==
    /\ spc = "done"
    /\ Len(filtered_df) = 3
    /\ \E i \in DOMAIN filtered_df : IsNA(filtered_df[i].country)
    /\ Len(country_counts) = 2
    /\ ~TiesByFirstOccurrence(country_counts, CountryColumn(filtered_df))

\* C10 as claimed: the same, with values of equal count in the order of
\* their first occurrence in the input.
C10_Original ==
    spc = "done" =>
        /\ \A k \in 0..TopK :
              /\ TopOf(country_counts, CountryColumn(filtered_df), k)
              /\ TopOf(shape_counts, ShapeColumn(filtered_df), k)
        /\ TiesByFirstOccurrence(country_counts, CountryColumn(filtered_df))
        /\ TiesByFirstOccurrence(shape_counts, ShapeColumn(filtered_df))

=============================================================================
